---- MODULE Spec2Model ----
(***************************************************************************)
(* A model of the Onfleet API wrapper: the client constructor and its      *)
(* limiter configuration (lib/onfleet.js) and the method factory that      *)
(* resolves a request, sends it through the shared rate limiter and        *)
(* interprets the response (lib/Methods.js).                               *)
(***************************************************************************)
EXTENDS Integers, Sequences, FiniteSets, TLC

VARIABLES
    clients,      \* the Onfleet instances constructed so far, in order
    ctorResult,   \* the last `new Onfleet(...)`: whether it was given bottleneckOptions, and
                  \* how it ended ("ok", "ValidationError"; "none" before the first)
    limiter,      \* Onfleet.limiter's store options: maxConcurrent and minTime
    pending,      \* updateSettings calls made and not yet applied by the limiter
    calls,        \* the Methods calls made so far, in submission order
    queue,        \* calls waiting in the limiter's queue (indexes into calls)
    timers,       \* calls admitted by the limiter whose start timer is pending
    nextRequest,  \* the limiter's _nextRequest (earliest time of the next start)
    now,          \* the clock, in milliseconds
    lastAdmit,    \* the latest admission: its scheduled start and the minTime then in force
    lastStart,    \* the time of the latest start of a fetch, -1 before the first
    resolveIn,    \* a resolver input (descriptor and arguments)
    resolved,     \* the request the resolver built for resolveIn
    dispatchIn,   \* a dispatch input (verb and what fetch produced)
    outcome       \* what the Methods promise settled to for dispatchIn

vars == <<clients, ctorResult, limiter, pending, calls, queue, timers,
          nextRequest, now, lastAdmit, lastStart, resolveIn, resolved, dispatchIn, outcome>>

Max(a, b) == IF a >= b THEN a ELSE b

(***************************************************************************)
(* JavaScript values, as far as the option guards look at them: undefined, *)
(* a number (NaN is the number that is not numeric) or a string (numeric   *)
(* when its text is a decimal numeral, whose value is n).                  *)
(***************************************************************************)
Undefined == [type |-> "undefined", numeric |-> FALSE, n |-> 0]
NaN == [type |-> "number", numeric |-> FALSE, n |-> 0]
Num(k) == [type |-> "number", numeric |-> TRUE, n |-> k]
Str(k) == [type |-> "string", numeric |-> TRUE, n |-> k]
Text == [type |-> "string", numeric |-> FALSE, n |-> 0]

\* JavaScript truthiness: undefined, 0 and NaN are falsy; the strings here are non-empty.
Truthy(v) ==
    CASE v.type = "undefined" -> FALSE
      [] v.type = "number" -> v.numeric /\ v.n # 0
      [] OTHER -> TRUE

\* Number(v): a number is itself, a numeral converts, anything else is NaN.
Number(v) ==
    CASE v.type = "number" -> v
      [] v.type = "string" /\ v.numeric -> Num(v.n)
      [] OTHER -> NaN

isNaN(v) == ~v.numeric

\* The value a setting has in the limiter's arithmetic and comparisons.
Numeric(v) == Number(v).n

(***************************************************************************)
(* Constants of lib/onfleet.js and lib/constants.js.                       *)
(***************************************************************************)
DEFAULT_TIMEOUT == 70000
LIMITER_HIGHEST_MAX_CONCURRENT == 20
LIMITER_LOWEST_MIN_TIME == 50
LIMITER_DEFAULT_MAX_CONCURRENT == 1
LIMITER_DEFAULT_MIN_TIME == 50

DefaultSettings ==
    [maxConcurrent |-> Num(LIMITER_DEFAULT_MAX_CONCURRENT),
     minTime |-> Num(LIMITER_DEFAULT_MIN_TIME)]

(***************************************************************************)
(* Bounds and input sets.                                                  *)
(***************************************************************************)
MaxClients == 2
MaxPending == 2

NoOptions == [given |-> FALSE, maxConcurrent |-> Undefined, minTime |-> Undefined]
Options(mc, mt) == [given |-> TRUE, maxConcurrent |-> mc, minTime |-> mt]

MaxConcurrentInputs == {Undefined, Num(0), Num(5), Num(20), Num(50), NaN, Str(5), Text}
MinTimeInputs == {Undefined, Num(1), Num(50), Num(100), NaN, Str(100), Text}
AllOptions ==
    {NoOptions} \cup {Options(mc, mt) : mc \in MaxConcurrentInputs, mt \in MinTimeInputs}

(***************************************************************************)
(* Onfleet.initBottleneckOptions: the updateSettings calls it makes, in    *)
(* order. Each passes the option as supplied, not the converted number.    *)
(***************************************************************************)
MaxConcurrentAccepted(v) ==
    /\ Truthy(v)
    /\ ~isNaN(Number(v))
    /\ 0 < Number(v).n
    /\ Number(v).n < LIMITER_HIGHEST_MAX_CONCURRENT

MinTimeAccepted(v) ==
    /\ Truthy(v)
    /\ ~isNaN(Number(v))
    /\ Number(v).n > LIMITER_LOWEST_MIN_TIME

initBottleneckOptions(o) ==
    (IF MaxConcurrentAccepted(o.maxConcurrent)
        THEN <<[key |-> "maxConcurrent", value |-> o.maxConcurrent]>> ELSE <<>>)
    \o
    (IF MinTimeAccepted(o.minTime)
        THEN <<[key |-> "minTime", value |-> o.minTime]>> ELSE <<>>)

\* limiter.updateSettings: overwrite the named store option.
updateSettings(s, u) == [s EXCEPT ![u.key] = u.value]

(***************************************************************************)
(* new Onfleet({apiKey, userTimeout, bottleneckOptions}).                  *)
(***************************************************************************)
Headers0 == {"Content-Type", "User-Agent", "Authorization"}

CtorResult(how, o) == [ended |-> how, configured |-> o.given]

\* A constructor that makes itself a fresh limiter with the default settings.
ConstructorOwnLimiter(apiKey, userTimeout, o) ==
    /\ Len(clients) < MaxClients
    /\ apiKey /\ userTimeout <= DEFAULT_TIMEOUT
    /\ ctorResult' = CtorResult("ok", o)
    /\ clients' = Append(clients, [headers |-> Headers0])
    /\ limiter' = DefaultSettings
    /\ pending' = IF o.given THEN initBottleneckOptions(o) ELSE <<>>
    /\ UNCHANGED <<calls, queue, timers, nextRequest, now,
                   lastAdmit, lastStart, resolveIn, resolved, dispatchIn, outcome>>

Constructor(apiKey, userTimeout, o) ==
    /\ Len(clients) < MaxClients
    /\ IF ~apiKey \/ userTimeout > DEFAULT_TIMEOUT
          THEN /\ ctorResult' = CtorResult("ValidationError", o)
               /\ UNCHANGED <<clients, pending>>
          ELSE /\ Len(pending) + Len(initBottleneckOptions(o)) <= MaxPending
               /\ ctorResult' = CtorResult("ok", o)
               /\ clients' = Append(clients, [headers |-> Headers0])
               /\ pending' = pending \o (IF o.given THEN initBottleneckOptions(o) ELSE <<>>)
    /\ UNCHANGED <<limiter, calls, queue, timers, nextRequest, now,
                   lastAdmit, lastStart, resolveIn, resolved, dispatchIn, outcome>>

\* The limiter applies an updateSettings call on the next turn of the event loop (after a
\* zero-delay timer), so before the clock moves on and before any fetch settles.
ApplySettings ==
    /\ pending # <<>>
    /\ limiter' = updateSettings(limiter, Head(pending))
    /\ pending' = Tail(pending)
    /\ UNCHANGED <<clients, ctorResult, calls, queue, timers, nextRequest, now,
                   lastAdmit, lastStart, resolveIn, resolved, dispatchIn, outcome>>

(***************************************************************************)
(* Call arguments: strings and objects. An object is known by its name and *)
(* by the keys it carries; args[i] beyond the list is undefined.           *)
(***************************************************************************)
Undef == [kind |-> "undefined", text |-> "", keys |-> {}, of |-> ""]
S(text) == [kind |-> "string", text |-> text, keys |-> {}, of |-> ""]
Obj(name, keys) == [kind |-> "object", text |-> name, keys |-> keys, of |-> ""]

Arg(args, i) == IF i <= Len(args) THEN args[i] ELSE Undef

LookupTags == {"name", "shortId", "phone", "workers", "organizations", "teams"}

\* The identifier-shaped strings among the arguments used here (util.isBase64Encoded).
IdStrings == {"SxD9Ran6pOfnUDgfTecTsgXd", "AqzN6ZAq*qlSDJ0FzmZIMZz~"}
isBase64Encoded(a) == a.kind = "string" /\ a.text \in IdStrings

\* util.isQueryParam: a plain object.
isQueryParam(a) == a.kind = "object"

(***************************************************************************)
(* A url is the base url followed by path segments, then the query objects *)
(* appended to it. A path template marks its parameter with a segment      *)
(* that starts with a colon.                                               *)
(***************************************************************************)
NoPath == <<"undefined">>
Placeholders == {":taskId", ":workerId", ":recipientId", ":teamId"}

Url(path) == [path |-> path, query |-> <<>>]

RECURSIVE Substitute(_, _)
\* Replace the first parameter segment of the path by the segments in `by`.
Substitute(path, by) ==
    IF path = <<>> THEN <<>>
    ELSE IF Head(path) \in Placeholders THEN by \o Tail(path)
    ELSE <<Head(path)>> \o Substitute(Tail(path), by)

\* util.replaceWithId: the identifier takes the parameter's place.
replaceWithId(url, id) == [url EXCEPT !.path = Substitute(url.path, <<id.text>>)]

\* util.replaceWithEndpointAndParam: the lookup key and its value take the parameter's place.
replaceWithEndpointAndParam(url, endpoint, id) ==
    [url EXCEPT !.path = Substitute(url.path, <<endpoint.text, id.text>>)]

\* util.appendQueryParameters: the object's entries are appended to the query string.
appendQueryParameters(url, q) == [url EXCEPT !.query = Append(url.query, q)]

includes(url, segment) == \E i \in 1..Len(url.path) : url.path[i] = segment

(***************************************************************************)
(* Methods, lines 13-92: the request built from a descriptor (key) and the *)
(* arguments, one definition per rule, applied in the order of the code.   *)
(* r is [url, body, hasBody, headers].                                     *)
(***************************************************************************)
NoBody == S("")

ResolveStart(key, headers) ==
    [url |-> Url(key.path), body |-> NoBody, hasBody |-> FALSE, headers |-> headers]

\* No arguments (lines 22-24).
RuleNoArguments(key, args, r) ==
    IF Len(args) = 0 /\ key.method = "GET" /\ key.altPath # NoPath
        THEN [r EXCEPT !.url = Url(key.altPath)]
        ELSE r

\* LookupUrl with the identifier test made before the lookup-tag test.
LookupUrlIdFirst(key, args, url) ==
    IF isBase64Encoded(Arg(args, 1))
        THEN replaceWithId(url, Arg(args, 1))
    ELSE IF Arg(args, 2).kind = "string" /\ Arg(args, 2).text \in LookupTags
        THEN replaceWithEndpointAndParam(url, Arg(args, 2), Arg(args, 1))
    ELSE Url(key.altPath)

\* The url of a GET, DELETE or PUT with arguments (lines 28-34).
LookupUrl(key, args, url) ==
    IF Arg(args, 2).kind = "string" /\ Arg(args, 2).text \in LookupTags
        THEN replaceWithEndpointAndParam(url, Arg(args, 2), Arg(args, 1))
    ELSE IF isBase64Encoded(Arg(args, 1))
        THEN replaceWithId(url, Arg(args, 1))
    ELSE Url(key.altPath)

\* One or more arguments of a GET, DELETE or PUT (lines 27-40).
RuleLookup(key, args, r) ==
    IF Len(args) >= 1 /\ key.method \in {"GET", "DELETE", "PUT"}
        THEN LET u == LookupUrl(key, args, r.url)
             IN  IF key.method = "PUT"
                    THEN [r EXCEPT !.url = u, !.body = Arg(args, 2), !.hasBody = TRUE]
                    ELSE [r EXCEPT !.url = u]
        ELSE r

\* RuleCustomFields that leaves alone a body an earlier rule has set.
RuleCustomFieldsKeepsBody(key, args, r) ==
    IF key.method \in {"PUT", "DELETE"} /\ includes(r.url, "customFields") /\ ~r.hasBody
        THEN [r EXCEPT !.body = Arg(args, 1), !.hasBody = TRUE]
        ELSE r

\* PUT or DELETE on custom fields (lines 41-48).
RuleCustomFields(key, args, r) ==
    IF key.method \in {"PUT", "DELETE"} /\ includes(r.url, "customFields")
        THEN [r EXCEPT !.body = Arg(args, 1), !.hasBody = TRUE]
        ELSE r

\* POST (lines 50-61). An undefined args[1] is falsy; strings and objects here are truthy.
RulePost(key, args, r) ==
    IF key.method = "POST"
        THEN IF isBase64Encoded(Arg(args, 1))
                THEN LET u == replaceWithId(r.url, Arg(args, 1))
                     IN  IF Arg(args, 2).kind # "undefined"
                            THEN [r EXCEPT !.url = u, !.body = Arg(args, 2), !.hasBody = TRUE]
                            ELSE [r EXCEPT !.url = u]
                ELSE [r EXCEPT !.body = Arg(args, 1), !.hasBody = TRUE]
        ELSE r

RECURSIVE QueryLoop(_, _)
\* for (const element of args) (lines 65-69).
QueryLoop(args, url) ==
    IF args = <<>> THEN url
    ELSE QueryLoop(Tail(args),
                   IF isQueryParam(Head(args)) THEN appendQueryParameters(url, Head(args))
                   ELSE url)

\* Query parameters (lines 64-70).
RuleQueryParams(key, args, r) ==
    IF key.queryParams THEN [r EXCEPT !.url = QueryLoop(args, r.url)] ELSE r

\* {path: "providers/manifest/generate?hubId=..&workerId=..", method: "GET"}, built from item.
ManifestBody(item) ==
    [kind |-> "object", text |-> "manifest", keys |-> {"path", "method"}, of |-> item.text]
DateParams(item) == Obj("dates", item.keys \cap {"startDate", "endDate"})

\* One item of the delivery manifest loop (lines 75-90).
ManifestItem(item, r) ==
    LET r1 == IF {"hubId", "workerId"} \subseteq item.keys
                 THEN [r EXCEPT !.body = ManifestBody(item), !.hasBody = TRUE]
                 ELSE r
        r2 == IF "googleApiKey" \in item.keys
                 THEN [r1 EXCEPT !.headers = r1.headers \cup {"X-API-Key"}]
                 ELSE r1
    IN  IF item.keys \cap {"startDate", "endDate"} # {}
           THEN [r2 EXCEPT !.url = appendQueryParameters(r2.url, DateParams(item))]
           ELSE r2

RECURSIVE ManifestLoop(_, _)
\* args.forEach (lines 74-91).
ManifestLoop(args, r) ==
    IF args = <<>> THEN r ELSE ManifestLoop(Tail(args), ManifestItem(Head(args), r))

\* Delivery manifest (lines 73-92).
RuleManifest(key, args, r) ==
    IF key.deliveryManifestObject /\ Len(args) > 0 THEN ManifestLoop(args, r) ELSE r

\* The whole of lines 13-92.
Resolve(key, args, headers) ==
    RuleManifest(key, args,
      RuleQueryParams(key, args,
        RulePost(key, args,
          RuleCustomFields(key, args,
            RuleLookup(key, args,
              RuleNoArguments(key, args, ResolveStart(key, headers)))))))

(***************************************************************************)
(* Methods, lines 95-135: what the promise settles to, given the verb and  *)
(* what fetch produced: a rejection (network failure, timeout) or a        *)
(* response with a status and a body.                                      *)
(***************************************************************************)
Rejection == [kind |-> "reject", ok |-> FALSE, status |-> 0,
              json |-> "none", hasMessage |-> FALSE, hasError |-> FALSE, error |-> 0]
Response(ok, status, json, hasMessage, hasError, error) ==
    [kind |-> "response", ok |-> ok, status |-> status,
     json |-> json, hasMessage |-> hasMessage, hasError |-> hasError, error |-> error]

Return(what, n) == [settled |-> "resolved", kind |-> what, value |-> n]
Throw(kind) == [settled |-> "rejected", kind |-> kind, value |-> 0]

\* Lines 122-132. A missing error code compares false with every bound.
Classify(hasError, errorCode) ==
    IF hasError /\ errorCode = 2300 THEN "RateLimitError"
    ELSE IF hasError /\ errorCode >= 1100 /\ errorCode <= 1108 THEN "PermissionError"
    ELSE IF hasError /\ errorCode >= 2500 THEN "ServiceError"
    ELSE IF hasError /\ errorCode = 2218 THEN "ServiceError"
    ELSE "HttpError"

\* res.json(): rejects unless the body is JSON text.
JsonParses(res) == res.json = "value"

\* The try block (lines 96-132).
TryBlockNoFallback(operation, res) ==
    IF res.kind = "reject" THEN Throw("FetchError")
    ELSE IF res.ok
        THEN IF operation = "DELETE" THEN Return("status", res.status)
             ELSE IF JsonParses(res) THEN Return("body", 0)
             ELSE Throw("SyntaxError")
    ELSE IF ~JsonParses(res) THEN Throw("SyntaxError")
    ELSE IF ~res.hasMessage THEN Throw("TypeError")
    ELSE Throw(Classify(res.hasError, res.error))

TryBlock(operation, res) ==
    IF res.kind = "reject" THEN Throw("FetchError")
    ELSE IF res.ok
        THEN IF operation = "DELETE" THEN Return("status", res.status)
             ELSE IF JsonParses(res) THEN Return("body", 0)
             ELSE Return("status", res.status)
    ELSE IF ~JsonParses(res) THEN Throw("SyntaxError")
    ELSE IF ~res.hasMessage THEN Throw("TypeError")
    ELSE Throw(Classify(res.hasError, res.error))

\* The catch clause (lines 133-135): whatever the try block threw becomes a GenericError.
CatchRethrows(r) == r

Catch(r) == IF r.settled = "rejected" THEN Throw("GenericError") ELSE r

Dispatch(operation, res) == Catch(TryBlock(operation, res))

ErrorCodes == {0, 1099, 1100, 1104, 1108, 1109, 2217, 2218, 2219, 2299, 2300, 2301, 2499, 2500, 2600}
Bodies ==
    {<<"empty", FALSE, FALSE, 0>>, <<"malformed", FALSE, FALSE, 0>>,
     <<"value", FALSE, FALSE, 0>>, <<"value", TRUE, FALSE, 0>>}
    \cup {<<"value", TRUE, TRUE, c>> : c \in ErrorCodes}
Responses ==
    {Rejection}
    \cup {Response(TRUE, st, b[1], b[2], b[3], b[4]) : st \in {200, 204}, b \in Bodies}
    \cup {Response(FALSE, st, b[1], b[2], b[3], b[4]) : st \in {400, 429, 500}, b \in Bodies}
Verbs == {"GET", "POST", "PUT", "DELETE"}

(***************************************************************************)
(* Call descriptors, as the resource tables give them, and argument lists. *)
(***************************************************************************)
Descriptor(path, altPath, method, queryParams, manifest) ==
    [path |-> path, altPath |-> altPath, method |-> method,
     queryParams |-> queryParams, deliveryManifestObject |-> manifest]

Descriptors ==
    {Descriptor(<<"tasks", ":taskId">>, <<"tasks", "all">>, "GET", TRUE, FALSE),
     Descriptor(<<"recipients", ":recipientId">>, NoPath, "GET", FALSE, FALSE),
     Descriptor(<<"tasks", ":taskId">>, NoPath, "DELETE", FALSE, FALSE),
     Descriptor(<<"workers", ":workerId">>, NoPath, "PUT", FALSE, FALSE),
     Descriptor(<<"teams">>, NoPath, "POST", FALSE, FALSE),
     Descriptor(<<"tasks", ":taskId", "complete">>, NoPath, "POST", FALSE, FALSE),
     Descriptor(<<"customFields">>, <<"customFields", "Task">>, "PUT", FALSE, FALSE),
     Descriptor(<<"customFields">>, <<"customFields", "Task">>, "DELETE", FALSE, FALSE),
     Descriptor(<<"integrations", "marketplace">>, NoPath, "POST", FALSE, TRUE)}

MaxArgs == 2

ArgValues ==
    {S("SxD9Ran6pOfnUDgfTecTsgXd"), S("44a56188"), S("shortId"), S("phone"),
     Obj("payload", {"name"}),
     Obj("manifestA", {"hubId", "workerId"}),
     Obj("manifestB", {"hubId", "workerId", "googleApiKey", "startDate"}),
     Obj("keyOnly", {"googleApiKey"})}

ArgLists == UNION {[1..n -> ArgValues] : n \in 0..MaxArgs}

(***************************************************************************)
(* The shared limiter (Onfleet.limiter, a Bottleneck) and the calls sent   *)
(* through it by Methods. A call is queued by schedule, admitted           *)
(* (registered) when the concurrency setting allows, started by a timer at *)
(* the time the spacing setting gives, and done when fetch settles.        *)
(***************************************************************************)
MaxCalls == 2
MaxClock == 50
TickSteps == {50}
\* A time no run reaches: what _nextRequest becomes once a string has been added to it.
FarFuture == 1000000

NoResult == [settled |-> "pending", kind |-> "", value |-> 0]

NoAdmit == [at |-> -1, minTime |-> 0]

NewCall(c, operation) ==
    [client |-> c, operation |-> operation, st |-> "queued",
     providerKey |-> FALSE, keySent |-> FALSE, result |-> NoResult]

Admitted(i) == calls[i].st \in {"running", "executing"}
\* The limiter's _running: calls admitted and not yet completed, of every client.
Running == Cardinality({i \in 1..Len(calls) : Admitted(i)})

\* A limiter of its own for each client.
LimiterOfInstance(c) == c

\* The limiter a client's calls go through: the one static Onfleet.limiter, whatever the client.
LimiterOf(c) == 0

\* The _running of one limiter.
RunningOn(l) == Cardinality({i \in 1..Len(calls) : Admitted(i) /\ LimiterOf(calls[i].client) = l})

\* The admission test: _running + weight <= maxConcurrent.
conditionsCheck(id) == RunningOn(LimiterOf(calls[id].client)) + 1 <= Numeric(limiter.maxConcurrent)

\* A priority that depends on the verb.
JobPriorityByVerb(call) == IF call.operation = "GET" THEN 5 ELSE 4

\* schedule is called with the function alone, so every job has the default priority.
JobPriority(call) == 5

\* The job the limiter admits next: of the queued jobs with the most urgent priority
\* (the smallest number), the one queued first.
NextQueued(q) ==
    LET best == CHOOSE k \in 1..Len(q) :
                    \A j \in 1..Len(q) :
                        \/ JobPriority(calls[q[k]]) < JobPriority(calls[q[j]])
                        \/ (JobPriority(calls[q[k]]) = JobPriority(calls[q[j]]) /\ k <= j)
    IN  q[best]

\* _nextRequest = now + wait + minTime; adding a string concatenates, which as a number
\* is far beyond any time reached.
NextRequestAfter(start, minTime) ==
    IF minTime.type = "string" \/ start >= FarFuture THEN FarFuture ELSE start + minTime.n

\* The inputs of the calls made through the limiter: a descriptor and its arguments.
CallInput(key, args) == [key |-> key, args |-> args]
CallInputs ==
    {CallInput(Descriptor(<<"tasks", ":taskId">>, <<"tasks", "all">>, "GET", TRUE, FALSE),
               <<S("SxD9Ran6pOfnUDgfTecTsgXd")>>),
     CallInput(Descriptor(<<"integrations", "marketplace">>, NoPath, "POST", FALSE, TRUE),
               <<Obj("manifestB", {"hubId", "workerId", "googleApiKey", "startDate"})>>)}

\* Whether a call's arguments carry a service-provider key that the delivery manifest loop
\* acts on (item.googleApiKey, lines 73 and 82).
CarriesProviderKey(in) ==
    /\ in.key.deliveryManifestObject
    /\ \E k \in 1..Len(in.args) : "googleApiKey" \in in.args[k].keys

\* Methods calling fetch at once, not through the limiter.
MethodsUnlimited(c, in) ==
    /\ Len(calls) < MaxCalls
    /\ c \in 1..Len(clients)
    /\ LET r == Resolve(in.key, in.args, clients[c].headers)
       IN  /\ clients' = [clients EXCEPT ![c].headers = r.headers]
           /\ calls' = Append(calls, [NewCall(c, in.key.method) EXCEPT
                                         !.st = "executing",
                                         !.providerKey = CarriesProviderKey(in),
                                         !.keySent = ("X-API-Key" \in r.headers)])
    /\ lastStart' = now
    /\ UNCHANGED <<ctorResult, limiter, pending, queue, timers, nextRequest, now,
                   lastAdmit, resolveIn, resolved, dispatchIn, outcome>>

\* Methods(key, api, ...args) up to the schedule call: the request is resolved (which may
\* add a header to the client's own header set) and the call joins the limiter's queue.
Methods(c, in) ==
    /\ Len(calls) < MaxCalls
    /\ c \in 1..Len(clients)
    /\ LET r == Resolve(in.key, in.args, clients[c].headers)
       IN  clients' = [clients EXCEPT ![c].headers = r.headers]
    /\ calls' = Append(calls, [NewCall(c, in.key.method) EXCEPT
                                  !.providerKey = CarriesProviderKey(in)])
    /\ queue' = Append(queue, Len(calls) + 1)
    /\ UNCHANGED <<ctorResult, limiter, pending, timers, nextRequest, now,
                   lastAdmit, lastStart, resolveIn, resolved, dispatchIn, outcome>>

\* The limiter admits the next queued call and sets the timer of its start.
Register ==
    /\ queue # <<>>
    /\ LET id == NextQueued(queue)
           wait == Max(nextRequest - now, 0)
       IN  /\ conditionsCheck(id)
           /\ nextRequest' = NextRequestAfter(now + wait, limiter.minTime)
           /\ calls' = [calls EXCEPT ![id].st = "running"]
           /\ timers' = Append(timers, [id |-> id, at |-> now + wait])
           /\ queue' = SelectSeq(queue, LAMBDA x : x # id)
           /\ lastAdmit' = [at |-> now + wait, minTime |-> Numeric(limiter.minTime)]
    /\ UNCHANGED <<clients, ctorResult, limiter, pending, now, lastStart,
                   resolveIn, resolved, dispatchIn, outcome>>

\* The timer due first, the older one of two due at the same time.
FirstTimer ==
    CHOOSE k \in 1..Len(timers) :
        \A j \in 1..Len(timers) :
            \/ timers[k].at < timers[j].at
            \/ (timers[k].at = timers[j].at /\ k <= j)

\* A start timer fires, at its time or later: fetch is called with the client's header
\* set as it is now.
Execute ==
    /\ timers # <<>>
    /\ LET t == timers[FirstTimer]
       IN  /\ t.at <= now
           /\ calls' = [calls EXCEPT ![t.id].st = "executing",
                            ![t.id].keySent = ("X-API-Key" \in clients[calls[t.id].client].headers)]
           /\ timers' = SelectSeq(timers, LAMBDA x : x # t)
           /\ lastStart' = now
    /\ UNCHANGED <<clients, ctorResult, limiter, pending, queue, nextRequest, now,
                   lastAdmit, resolveIn, resolved, dispatchIn, outcome>>

\* The responses fetch is given here.
LiveResponses ==
    {Rejection,
     Response(TRUE, 200, "value", FALSE, FALSE, 0),
     Response(FALSE, 429, "value", TRUE, TRUE, 2300)}

\* fetch settles and the rest of Methods runs; the limiter frees the slot.
Complete(id, res) ==
    /\ id \in 1..Len(calls)
    /\ calls[id].st = "executing"
    /\ pending = <<>>
    /\ calls' = [calls EXCEPT ![id].st = "done",
                              ![id].result = Dispatch(calls[id].operation, res)]
    /\ UNCHANGED <<clients, ctorResult, limiter, pending, queue, timers, nextRequest, now,
                   lastAdmit, lastStart, resolveIn, resolved, dispatchIn, outcome>>

\* Time passes.
Tick(d) ==
    /\ now < MaxClock
    /\ pending = <<>>
    /\ now' = now + d
    /\ UNCHANGED <<clients, ctorResult, limiter, pending, calls, queue, timers, nextRequest,
                   lastAdmit, lastStart, resolveIn, resolved, dispatchIn, outcome>>

Idle == [used |-> FALSE]

InitConfig ==
    /\ clients = <<>>
    /\ ctorResult = [ended |-> "none", configured |-> FALSE]
    /\ limiter = DefaultSettings
    /\ pending = <<>>

InitLimiter ==
    /\ calls = <<>>
    /\ queue = <<>>
    /\ timers = <<>>
    /\ nextRequest = 0
    /\ now = 0
    /\ lastAdmit = NoAdmit
    /\ lastStart = -1

InitProbes ==
    /\ resolveIn = Idle
    /\ resolved = Idle
    /\ dispatchIn = Idle
    /\ outcome = Idle

\* The constructor and the limiter's settings alone, over every kind of option value.
InitC == InitConfig /\ InitLimiter /\ InitProbes

NextC ==
    \/ \E k \in BOOLEAN, t \in {DEFAULT_TIMEOUT, DEFAULT_TIMEOUT + 1}, o \in AllOptions :
          Constructor(k, t, o)
    \/ ApplySettings

SpecConfig == InitC /\ [][NextC]_vars

(***************************************************************************)
(* The whole program: clients are constructed, calls are made and served.  *)
(***************************************************************************)
LiveOptions ==
    {NoOptions, Options(Num(2), Num(100)), Options(Num(1), Undefined)}

Init == InitConfig /\ InitLimiter /\ InitProbes

Next ==
    \/ \E o \in LiveOptions : Constructor(TRUE, DEFAULT_TIMEOUT, o)
    \/ ApplySettings
    \/ \E c \in 1..MaxClients, in \in CallInputs : Methods(c, in)
    \/ Register
    \/ Execute
    \/ \E id \in 1..MaxCalls, res \in LiveResponses : Complete(id, res)
    \/ \E d \in TickSteps : Tick(d)

Spec == Init /\ [][Next]_vars

(***************************************************************************)
(* The resolver alone: every descriptor with every argument list.          *)
(***************************************************************************)
InitR ==
    /\ InitConfig /\ InitLimiter
    /\ resolveIn \in {[used |-> TRUE, key |-> k, args |-> a] : k \in Descriptors, a \in ArgLists}
    /\ resolved = Idle
    /\ dispatchIn = Idle
    /\ outcome = Idle

ResolveStep ==
    /\ resolved = Idle
    /\ resolved' = Resolve(resolveIn.key, resolveIn.args, Headers0)
    /\ UNCHANGED <<clients, ctorResult, limiter, pending, calls, queue, timers,
                   nextRequest, now, lastAdmit, lastStart, resolveIn, dispatchIn, outcome>>

SpecResolve == InitR /\ [][ResolveStep]_vars

(***************************************************************************)
(* The response handling alone: every verb with every fetch result.        *)
(***************************************************************************)
InitD ==
    /\ InitConfig /\ InitLimiter
    /\ resolveIn = Idle
    /\ resolved = Idle
    /\ dispatchIn \in {[used |-> TRUE, operation |-> v, res |-> r] : v \in Verbs, r \in Responses}
    /\ outcome = Idle

DispatchStep ==
    /\ outcome = Idle
    /\ outcome' = Dispatch(dispatchIn.operation, dispatchIn.res)
    /\ UNCHANGED <<clients, ctorResult, limiter, pending, calls, queue, timers,
                   nextRequest, now, lastAdmit, lastStart, resolveIn, resolved, dispatchIn>>

SpecDispatch == InitD /\ [][DispatchStep]_vars

(***************************************************************************)
(* Properties of the response handling (SpecDispatch).                     *)
(***************************************************************************)
Settled == outcome # Idle
Res == dispatchIn.res
StructuredFailure ==
    /\ Res.kind = "response" /\ ~Res.ok
    /\ Res.json = "value" /\ Res.hasMessage /\ Res.hasError

\* The error kind the classification table gives a code.
KindOfCode(c) ==
    IF c = 2300 THEN "RateLimitError"
    ELSE IF 1100 <= c /\ c <= 1108 THEN "PermissionError"
    ELSE IF c >= 2500 \/ c = 2218 THEN "ServiceError"
    ELSE "HttpError"

\* C1: a failure response with a structured body {message: {error: code}} makes the
\* caller observe RateLimit for 2300, Permission for 1100..1108, Service for >= 2500 or
\* 2218, and Http for every other code.
C1_Claim ==
    (Settled /\ StructuredFailure) =>
        (outcome.settled = "rejected" /\ outcome.kind = KindOfCode(Res.error))

\* C4: on a success status a DELETE resolves to the numeric status code; any other verb
\* resolves to the parsed body, and to the numeric status code when the body is empty or
\* is not JSON; it does not raise an error.
C4_SuccessResult ==
    (Settled /\ Res.kind = "response" /\ Res.ok) =>
        /\ outcome.settled = "resolved"
        /\ dispatchIn.operation = "DELETE" =>
              (outcome.kind = "status" /\ outcome.value = Res.status)
        /\ (dispatchIn.operation # "DELETE" /\ Res.json = "value") => outcome.kind = "body"
        /\ (dispatchIn.operation # "DELETE" /\ Res.json # "value") =>
              (outcome.kind = "status" /\ outcome.value = Res.status)

C4_Witness ==
    /\ Settled /\ Res.kind = "response" /\ Res.ok /\ Res.json = "empty"
    /\ dispatchIn.operation = "POST"
    /\ outcome = Return("status", 200)

\* The failures that are not a classified failure response: fetch rejected, or a failure
\* status whose body is not JSON or lacks message or message.error.
UnclassifiedFailure ==
    \/ Res.kind = "reject"
    \/ /\ Res.kind = "response" /\ ~Res.ok
       /\ (Res.json # "value" \/ ~Res.hasMessage \/ ~Res.hasError)

RawExceptions == {"FetchError", "SyntaxError", "TypeError"}

\* C5: when obtaining or parsing the response fails other than by a classified failure
\* response, the call raises the Generic error; and no call, whatever the response, lets
\* the caller observe the transport or parsing exception.
C5_GenericOnly ==
    Settled =>
        /\ UnclassifiedFailure => outcome = Throw("GenericError")
        /\ outcome.kind \notin RawExceptions

C5_Witness ==
    /\ Settled /\ Res.kind = "response" /\ ~Res.ok /\ Res.json = "malformed"
    /\ outcome = Throw("GenericError")

(***************************************************************************)
(* Properties of the resolver (SpecResolve).                               *)
(***************************************************************************)
Resolved == resolved # Idle
Key == resolveIn.key
Args == resolveIn.args
HasParameter(path) == \E i \in 1..Len(path) : path[i] \in Placeholders
TagLookup ==
    /\ Key.method \in {"GET", "DELETE", "PUT"}
    /\ Len(Args) >= 1
    /\ Arg(Args, 2).kind = "string" /\ Arg(Args, 2).text \in LookupTags

\* C6: a GET, DELETE or PUT whose second argument is a lookup tag resolves to the primary
\* path with the tag as lookup key and the first argument as its value, and (the
\* template having a parameter) to neither the identifier path nor the alternate path,
\* also when the first argument is identifier-shaped.
C6_TagFirst ==
    (Resolved /\ TagLookup) =>
        /\ resolved.url.path = Substitute(Key.path, <<Arg(Args, 2).text, Arg(Args, 1).text>>)
        /\ HasParameter(Key.path) =>
              /\ resolved.url.path # Substitute(Key.path, <<Arg(Args, 1).text>>)
              /\ resolved.url.path # Key.altPath

C6_Witness ==
    /\ Resolved /\ TagLookup
    /\ Key.method = "GET"
    /\ isBase64Encoded(Arg(Args, 1))
    /\ resolved.url.path = <<"tasks", "shortId", "SxD9Ran6pOfnUDgfTecTsgXd">>

\* The body the PUT rule or the POST rule sets, when one of them sets it.
PutSetsBody == Key.method = "PUT" /\ Len(Args) >= 1
PostSetsBody ==
    Key.method = "POST" /\ (~isBase64Encoded(Arg(Args, 1)) \/ Arg(Args, 2).kind # "undefined")
PostBody == IF isBase64Encoded(Arg(Args, 1)) THEN Arg(Args, 2) ELSE Arg(Args, 1)

\* C10 as stated: once the PUT rule or the POST rule has set the body, no later rule
\* (custom fields, delivery manifest) replaces it.
C10_Claim ==
    Resolved =>
        /\ PutSetsBody => (resolved.hasBody /\ resolved.body = Arg(Args, 2))
        /\ PostSetsBody => (resolved.hasBody /\ resolved.body = PostBody)

CustomFieldsApplies == Key.method \in {"PUT", "DELETE"} /\ includes(resolved.url, "customFields")
ManifestItems ==
    {i \in 1..Len(Args) : Key.deliveryManifestObject /\ {"hubId", "workerId"} \subseteq Args[i].keys}
LastManifestItem == Args[CHOOSE i \in ManifestItems : \A j \in ManifestItems : j <= i]

\* C10 amended: the last matching rule that sets the body wins. The manifest
\* hubId/workerId rule replaces any earlier body, the custom-field rule replaces the
\* body of the PUT rule by the first argument; no other rule changes the body.
C10_LastRuleWins ==
    Resolved =>
        /\ resolved.hasBody = (ManifestItems # {} \/ PostSetsBody \/ CustomFieldsApplies \/ PutSetsBody)
        /\ resolved.body =
              IF ManifestItems # {} THEN ManifestBody(LastManifestItem)
              ELSE IF PostSetsBody THEN PostBody
              ELSE IF CustomFieldsApplies THEN Arg(Args, 1)
              ELSE IF PutSetsBody THEN Arg(Args, 2)
              ELSE NoBody

C10_Witness ==
    /\ Resolved /\ PutSetsBody /\ CustomFieldsApplies
    /\ Arg(Args, 2) # Arg(Args, 1)
    /\ resolved.body = Arg(Args, 1)

(***************************************************************************)
(* Properties of the constructor and the limiter's settings (SpecConfig).  *)
(***************************************************************************)
IsNumberIn(v, lo, hi) == v.type = "number" /\ v.numeric /\ lo < v.n /\ v.n < hi

\* C2: the limiter's maxConcurrent changes only to a supplied number with 0 < value < 20
\* and its minTime only to a supplied number > 50; any other supplied value leaves the
\* setting as it was.
C2_Claim ==
    [][/\ limiter'.maxConcurrent # limiter.maxConcurrent =>
              IsNumberIn(limiter'.maxConcurrent, 0, LIMITER_HIGHEST_MAX_CONCURRENT)
       /\ limiter'.minTime # limiter.minTime =>
              IsNumberIn(limiter'.minTime, LIMITER_LOWEST_MIN_TIME, FarFuture)]_vars

ConstructedWithoutOptions ==
    /\ Len(clients') = Len(clients) + 1
    /\ ~ctorResult'.configured

\* C7 as stated: whenever a client is constructed without bottleneckOptions the limiter
\* has the default settings, whatever was constructed before.
C7_Claim == [][ConstructedWithoutOptions => limiter' = DefaultSettings]_vars

\* C7 amended: constructing a client without bottleneckOptions leaves the limiter's
\* settings as they were, the defaults or not, and asks for no change of them.
C7_KeepsSettings ==
    [][ConstructedWithoutOptions => (limiter' = limiter /\ pending' = pending)]_vars

C7_Witness ==
    /\ Len(clients) = 2
    /\ ctorResult = [ended |-> "ok", configured |-> FALSE]
    /\ pending = <<>>
    /\ limiter = [maxConcurrent |-> Num(5), minTime |-> Num(100)]

(***************************************************************************)
(* Properties of the limiter (Spec).                                       *)
(***************************************************************************)
Started(i) == calls[i].st \in {"executing", "done"}
AdmitStep == \E i \in 1..Len(calls) : calls[i].st = "queued" /\ calls'[i].st = "running"
StartStep ==
    \E i \in 1..Len(calls') :
        calls'[i].st = "executing" /\ (i > Len(calls) \/ calls[i].st # "executing")

\* C3: while maxConcurrent stays k, the number of calls admitted by the limiter and not
\* yet completed, counted over all clients, never grows beyond k.
C3_ConcurrencyBound ==
    [][limiter'.maxConcurrent = limiter.maxConcurrent =>
          (Running' <= Numeric(limiter.maxConcurrent) \/ Running' <= Running)]_vars

C3_Witness ==
    /\ Running = Numeric(limiter.maxConcurrent)
    /\ queue # <<>>
    /\ \E i \in 1..Len(calls) : Admitted(i) /\ calls[i].client # calls[Head(queue)].client

C9_Fifo ==
    \A i, j \in 1..Len(calls) :
        i < j =>
            /\ calls[j].st # "queued" => calls[i].st # "queued"
            /\ Started(j) => Started(i)

C9_Witness ==
    /\ Len(calls) >= 2
    /\ calls[1].st = "executing"
    /\ calls[2].st = "done"

\* C11: a delivery-manifest call carrying a service-provider key adds X-API-Key to its own
\* request only: every client's header set stays the one it was constructed with, and a
\* call that carries no provider key is sent without X-API-Key.
C11_Claim ==
    /\ \A c \in 1..Len(clients) : clients[c].headers = Headers0
    /\ \A i \in 1..Len(calls) :
           (Started(i) /\ ~calls[i].providerKey) => ~calls[i].keySent

====
